---------------------------- MODULE Spec2Model ----------------------------
(***************************************************************************)
(* A model of PostgresRunStorage                                           *)
(* (dagster_postgres/run_storage/run_storage.py): the daemon-heartbeat     *)
(* upsert, the key-value upsert, the index-migration cache and the schema  *)
(* bootstrap run by the constructor.                                       *)
(*                                                                         *)
(* The database is shared state; every store operation is split at its     *)
(* database round trips, so that processes and threads interleave exactly  *)
(* where the code can be preempted.  Each component has a specification of *)
(* its own (SpecHb, SpecHbSeq, ...): the variables of the other components *)
(* stay at their initial values there.                                     *)
(***************************************************************************)
EXTENDS Integers, Sequences, FiniteSets, TLC

VARIABLES
    \* ---- daemon_heartbeats table and the add_daemon_heartbeat callers
    hb_table,       \* the rows of DaemonHeartbeatsTable, in insertion order
    hb_pc,          \* per process: where it is inside add_daemon_heartbeat
    hb_arg,         \* per process: the DaemonHeartbeat of its current or last call
    hb_result,      \* per process: outcome of its last conn.execute
    hb_last_call,   \* per daemon type: the heartbeat of the latest call issued
    \* ---- kvs table and the kvs_set caller
    kvs_table,      \* the rows of KeyValueStoreTable, in insertion order
    kvs_pc,         \* where the caller is inside kvs_set
    kvs_arg,        \* the `pairs` argument of its current or last call
    kvs_result,     \* outcome of its last call
    kvs_before,     \* the table as it was when the current or last call began
    kvs_last,       \* per key: the value of the latest batch written with it
    \* ---- secondary index markers, one handle's cache and the threads using it
    idx_built,      \* the migration names whose marker is persisted as built
    idx_cache,      \* self._index_migration_cache: name -> "true"/"false"/"absent"
    idx_pc,         \* per thread: where it is inside its call
    idx_call,       \* per thread: [op, name] of its current or last call
    idx_tmp,        \* per thread: the marker value just queried, not yet stored
    idx_ret,        \* per thread: what its last call returned or raised
    idx_marked,     \* names for which a mark_index_built call has returned
    idx_after_mark, \* per thread: its call began after such a return for its name
    idx_last_done,  \* [op, name] of the call that returned last on the handle
    idx_prev,       \* per thread: idx_last_done as it was when its call began
    idx_seen_false, \* names for which has_built_index has returned false
    idx_queries,    \* per name: marker queries since its last mark_index_built began
    idx_qval,       \* per name: what the latest of those queries answered
    \* ---- the database schema and the processes constructing a store
    db_tables,      \* the names of the tables that exist in the database
    db_stamp,       \* the stamped alembic revision, "none" when there is none
    ct_pc,          \* per process: where it is inside __init__
    ct_autocreate,  \* per process: should_autocreate_tables
    ct_names,       \* per process: table_names, the result of the probe
    ct_todo,        \* per process: the tables create_all still has to create
    ct_retries,     \* per process: retries left in retry_pg_creation_fn
    ct_created,     \* per process: the tables it has created
    ct_before,      \* per process: tables and stamp when its construction began
    ct_result,      \* per process: "ok" or the exception __init__ raised
    ct_migrated,    \* per process: it ran migrate() and optimize()
    ct_conn_retries, \* per process: retries left in retry_pg_connection_fn
    ct_conn,        \* per process: connections _init_db's with block holds
    ct_cause,       \* per process: the kind of failure its exception came from
    ct_streak,      \* per process: the stage all of whose round trips failed transiently
    \* ---- each handle's engine and its operations that go through connect()
    op_postgres_url, \* per handle: the connection options of self.postgres_url
    op_engine,      \* per handle: self._engine, as create_engine configured it
    op_timeouts,    \* per handle: statement_timeout of its last two optimize_for_dagit calls
    op_pool_idle,   \* per handle: open connections its engine's pool holds
    op_conn,        \* per handle: connections its running operation holds
    op_pc,          \* per handle: where it is inside its operation
    op_kind,        \* per handle: the operation it runs or ran last
    op_retries,     \* per handle: retries left in retry_pg_connection_fn
    op_result,      \* per handle: "ok" or the exception its last operation raised
    op_cause,       \* per handle: the kind of failure that exception came from
    op_ret,         \* per handle: what its alembic_version call returns
    op_last_ret     \* per handle: what its previous alembic_version call returned

hbVars == <<hb_table, hb_pc, hb_arg, hb_result, hb_last_call>>

kvsVars == <<kvs_table, kvs_pc, kvs_arg, kvs_result, kvs_before, kvs_last>>

idxVars == <<idx_built, idx_cache, idx_pc, idx_call, idx_tmp, idx_ret, idx_marked,
             idx_after_mark, idx_last_done, idx_prev, idx_seen_false,
             idx_queries, idx_qval>>

ctVars == <<db_tables, db_stamp, ct_pc, ct_autocreate, ct_names, ct_todo, ct_retries,
            ct_created, ct_before, ct_result, ct_migrated, ct_conn_retries, ct_conn,
            ct_cause, ct_streak>>

\* What a constructing process keeps to itself.
ctLocal == <<ct_pc, ct_autocreate, ct_names, ct_todo, ct_retries, ct_created,
             ct_before, ct_result, ct_migrated, ct_conn_retries, ct_conn, ct_cause,
             ct_streak>>

opVars == <<op_postgres_url, op_engine, op_timeouts, op_pool_idle, op_conn, op_pc, op_kind,
            op_retries, op_result, op_cause, op_ret, op_last_ret>>

vars == <<hbVars, kvsVars, idxVars, ctVars, opVars>>

\* What each component's actions leave alone.
hbRest  == <<kvsVars, idxVars, ctVars, opVars>>
kvsRest == <<hbVars, idxVars, ctVars, opVars>>
idxRest == <<hbVars, kvsVars, ctVars, opVars>>
ctRest  == <<hbVars, kvsVars, idxVars, opVars>>
opRest  == <<hbVars, kvsVars, idxVars>>

(***************************************************************************)
(* Processes.  Every process owns one store handle.                        *)
(***************************************************************************)
Procs == {"p1", "p2"}

----------------------------------------------------------------------------
(***************************************************************************)
(* Generic PostgreSQL statement semantics used by the upserts.             *)
(* A table is a sequence of rows (records); a unique index on the columns  *)
(* `key` rejects a second row with the same key.                           *)
(***************************************************************************)

\* The positions of the rows of `table` that agree with `row` on `cols`.
ConflictingRows(table, row, cols) ==
    {i \in 1..Len(table) : \A c \in cols : table[i][c] = row[c]}

\* UPDATE part of ON CONFLICT DO UPDATE: the columns named by set_ take its
\* values, every other column of the existing row is kept.
ApplySet(old, set_) ==
    [c \in DOMAIN old |-> IF c \in DOMAIN set_ THEN set_[c] ELSE old[c]]

\* INSERT ... ON CONFLICT (index_elements) DO UPDATE SET set_: one atomic
\* statement; it inserts when no row conflicts and updates the conflicting
\* row otherwise, and never raises a unique violation on index_elements.
PgInsertOnConflictDoUpdate(table, row, index_elements, set_) ==
    LET hit == ConflictingRows(table, row, index_elements) IN
    IF hit = {}
    THEN [table |-> Append(table, row), status |-> "ok"]
    ELSE [table |-> [i \in 1..Len(table) |->
                        IF i \in hit THEN ApplySet(table[i], set_) ELSE table[i]],
          status |-> "ok"]

\* A plain INSERT under the unique index: a conflicting row makes the
\* statement fail with IntegrityError and leaves the table as it was.
PgInsert(table, row, index_elements) ==
    IF ConflictingRows(table, row, index_elements) = {}
    THEN [table |-> Append(table, row), status |-> "ok"]
    ELSE [table |-> table, status |-> "IntegrityError"]

----------------------------------------------------------------------------
(***************************************************************************)
(* add_daemon_heartbeat                                                    *)
(***************************************************************************)
DaemonTypes == {"SENSOR", "SCHEDULER"}
DaemonIds   == {"id1", "id2"}
MaxTimestamp == 2
Timestamps  == 1..MaxTimestamp

\* DaemonHeartbeat(timestamp, daemon_type, daemon_id, ...)
DaemonHeartbeats ==
    [timestamp : Timestamps, daemon_type : DaemonTypes, daemon_id : DaemonIds]

NoHeartbeat == [timestamp |-> 0, daemon_type |-> "none", daemon_id |-> "none"]

\* utc_datetime_from_timestamp: seconds since the epoch to an aware datetime.
utc_datetime_from_timestamp(ts) == [epoch |-> ts, tzinfo |-> "UTC"]

\* serialize_value: the whole heartbeat as one opaque string.
serialize_value(hb) ==
    <<"DaemonHeartbeat", hb.timestamp, hb.daemon_type, hb.daemon_id>>

\* .values(timestamp=..., daemon_type=..., daemon_id=..., body=...)
HeartbeatValues(hb) ==
    [timestamp   |-> utc_datetime_from_timestamp(hb.timestamp),
     daemon_type |-> hb.daemon_type,
     daemon_id   |-> hb.daemon_id,
     body        |-> serialize_value(hb)]

\* A faulty variant of HeartbeatSet: the update forgets the daemon id.
HeartbeatSet_NoDaemonId(hb) ==
    [timestamp |-> utc_datetime_from_timestamp(hb.timestamp),
     body      |-> serialize_value(hb)]

\* set_={"timestamp": ..., "daemon_id": ..., "body": ...}
HeartbeatSet(hb) ==
    [timestamp |-> utc_datetime_from_timestamp(hb.timestamp),
     daemon_id |-> hb.daemon_id,
     body      |-> serialize_value(hb)]

\* A faulty variant of HeartbeatUpsert: a plain insert, without the ON CONFLICT clause.
HeartbeatUpsert_PlainInsert(table, hb) ==
    PgInsert(table, HeartbeatValues(hb), {"daemon_type"})

\* The statement add_daemon_heartbeat executes.
HeartbeatUpsert(table, hb) ==
    PgInsertOnConflictDoUpdate(table, HeartbeatValues(hb), {"daemon_type"},
                               HeartbeatSet(hb))

HbRowsOf(t) == {i \in 1..Len(hb_table) : hb_table[i].daemon_type = t}

HbAllIdle == \A p \in Procs : hb_pc[p] = "idle"

HbInit ==
    /\ hb_table = <<>>
    /\ hb_pc = [p \in Procs |-> "idle"]
    /\ hb_arg = [p \in Procs |-> NoHeartbeat]
    /\ hb_result = [p \in Procs |-> "none"]
    /\ hb_last_call = [t \in DaemonTypes |-> NoHeartbeat]

\* `with self.connect() as conn:` process p enters add_daemon_heartbeat(hb).
HbConnect(p, hb) ==
    /\ hb_pc[p] = "idle"
    /\ hb_pc' = [hb_pc EXCEPT ![p] = "connected"]
    /\ hb_arg' = [hb_arg EXCEPT ![p] = hb]
    /\ hb_result' = [hb_result EXCEPT ![p] = "none"]
    /\ hb_last_call' = [hb_last_call EXCEPT ![hb.daemon_type] = hb]
    /\ UNCHANGED <<hb_table, hbRest>>

\* conn.execute(insert ... on_conflict_do_update ... returning): one statement,
\* committed on its own (the engine runs in AUTOCOMMIT).
HbExecute(p) ==
    /\ hb_pc[p] = "connected"
    /\ LET out == HeartbeatUpsert(hb_table, hb_arg[p]) IN
        /\ hb_table' = out.table
        /\ hb_result' = [hb_result EXCEPT ![p] = out.status]
    /\ hb_pc' = [hb_pc EXCEPT ![p] = "executed"]
    /\ UNCHANGED <<hb_arg, hb_last_call, hbRest>>

\* The with block ends: the connection is released and the call returns
\* (or the statement's error propagates to the caller).
HbReturn(p) ==
    /\ hb_pc[p] = "executed"
    /\ hb_pc' = [hb_pc EXCEPT ![p] = "idle"]
    /\ UNCHANGED <<hb_table, hb_arg, hb_result, hb_last_call, hbRest>>

\* Concurrent callers: any process may be anywhere in its call.
HbNext ==
    \/ \E p \in Procs, hb \in DaemonHeartbeats : HbConnect(p, hb)
    \/ \E p \in Procs : HbExecute(p)
    \/ \E p \in Procs : HbReturn(p)

\* Calls issued one after another: a call starts only when none is running.
HbSeqNext ==
    \/ \E p \in Procs, hb \in DaemonHeartbeats : HbAllIdle /\ HbConnect(p, hb)
    \/ \E p \in Procs : HbExecute(p)
    \/ \E p \in Procs : HbReturn(p)


----------------------------------------------------------------------------
(***************************************************************************)
(* kvs_set                                                                 *)
(***************************************************************************)
Keys   == {"k1", "k2", "k3"}
Values == {"a", "b"}
MaxBatch == 2

\* The argument of kvs_set: a Mapping (a dict: every key once, items() in
\* insertion order), or some other batch of pairs such as a list of tuples,
\* which may repeat a key.  Batches hold 1..MaxBatch pairs.
PairSeqs == UNION {[1..n -> Keys \X Values] : n \in 1..MaxBatch}

HasDuplicateKey(items) ==
    \E i, j \in 1..Len(items) : i # j /\ items[i][1] = items[j][1]

KvsArgs ==
    {[kind |-> "mapping", items |-> s] : s \in {x \in PairSeqs : ~HasDuplicateKey(x)}}
    \cup {[kind |-> "list", items |-> s] : s \in PairSeqs}

NoArg == [kind |-> "none", items |-> <<>>]

\* A faulty variant of IsMapping: the parameter check is missing.
IsMapping_Unchecked(arg) == TRUE

\* check.mapping_param(pairs, "pairs", key_type=str, value_type=str)
IsMapping(arg) == arg.kind = "mapping"

\* [{"key": k, "value": v} for k, v in pairs.items()]
KvsRows(arg) == [i \in 1..Len(arg.items) |->
                    [key |-> arg.items[i][1], value |-> arg.items[i][2]]]

\* A faulty variant of KvsSet: ON CONFLICT DO NOTHING, the existing value is kept.
KvsSet_Nothing(excluded) == [x \in {} |-> excluded.value]

\* set_={"value": insert_stmt.excluded.value}
KvsSet(excluded) == [value |-> excluded.value]

\* A faulty variant of KvsConflictTarget: the conflict is resolved against every row.
KvsConflictTarget_None == {}

\* index_elements=[KeyValueStoreTable.c.key]
KvsConflictTarget == {"key"}

\* The rows of one multi-row INSERT ... ON CONFLICT DO UPDATE, applied in order.
RECURSIVE UpsertRows(_, _, _)
UpsertRows(table, rows, n) ==
    IF n = 0 THEN table
    ELSE LET t == UpsertRows(table, rows, n - 1) IN
         PgInsertOnConflictDoUpdate(t, rows[n], KvsConflictTarget, KvsSet(rows[n])).table

\* The statement kvs_set executes.  PostgreSQL refuses a statement that would
\* update one row twice (two proposed rows with the same key): it raises
\* CardinalityViolation and changes nothing.
KvsUpsert(table, rows) ==
    IF \E i, j \in 1..Len(rows) : i # j /\ rows[i].key = rows[j].key
    THEN [table |-> table, status |-> "CardinalityViolation"]
    ELSE [table |-> UpsertRows(table, rows, Len(rows)), status |-> "ok"]

KvsRowsOf(table, k) == {i \in 1..Len(table) : table[i].key = k}

\* The value a batch pairs with key k at k's last occurrence.
LastValueIn(items, k) ==
    LET occ == {i \in 1..Len(items) : items[i][1] = k}
        last == CHOOSE i \in occ : \A j \in occ : j <= i
    IN items[last][2]

KeysOf(items) == {items[i][1] : i \in 1..Len(items)}

KvsInit ==
    /\ kvs_table = <<>>
    /\ kvs_pc = "idle"
    /\ kvs_arg = NoArg
    /\ kvs_result = "none"
    /\ kvs_before = <<>>
    /\ kvs_last = [k \in Keys |-> "none"]

\* kvs_set(pairs) up to `with self.connect() as conn:`: the parameter check
\* raises CheckError for anything that is not a Mapping, before any statement
\* is built; otherwise the statement is built and a connection acquired.
KvsCall(arg) ==
    /\ kvs_pc = "idle"
    /\ kvs_arg' = arg
    /\ kvs_before' = kvs_table
    /\ IF IsMapping(arg)
       THEN kvs_pc' = "connected" /\ kvs_result' = "none"
       ELSE kvs_pc' = "idle" /\ kvs_result' = "CheckError"
    /\ UNCHANGED <<kvs_table, kvs_last, kvsRest>>

\* conn.execute(upsert_stmt): one statement, committed on its own.
KvsExecute ==
    /\ kvs_pc = "connected"
    /\ LET out == KvsUpsert(kvs_table, KvsRows(kvs_arg)) IN
        /\ kvs_table' = out.table
        /\ kvs_result' = out.status
        /\ kvs_last' =
              IF out.status = "ok"
              THEN [k \in Keys |-> IF k \in KeysOf(kvs_arg.items)
                                   THEN LastValueIn(kvs_arg.items, k)
                                   ELSE kvs_last[k]]
              ELSE kvs_last
    /\ kvs_pc' = "executed"
    /\ UNCHANGED <<kvs_arg, kvs_before, kvsRest>>

\* The with block ends and kvs_set returns (or the statement's error
\* propagates).
KvsReturn ==
    /\ kvs_pc = "executed"
    /\ kvs_pc' = "idle"
    /\ UNCHANGED <<kvs_table, kvs_arg, kvs_result, kvs_before, kvs_last, kvsRest>>

KvsNext ==
    \/ \E arg \in KvsArgs : KvsCall(arg)
    \/ KvsExecute
    \/ KvsReturn

----------------------------------------------------------------------------
(***************************************************************************)
(* has_built_index / mark_index_built                                      *)
(*                                                                         *)
(* One store handle, shared by the threads of its process.  The persisted  *)
(* marker is read and written by SqlRunStorage (the super() calls); the    *)
(* cache is the handle's dict.  A thread can be preempted between any two  *)
(* of the steps below, and always around the database round trips.         *)
(***************************************************************************)
Threads == {"t1", "t2"}
MigrationNames == {"m1", "m2"}

NoCall == [op |-> "none", name |-> "none"]

\* super().has_built_index(name): is the marker persisted as built?
QueryMarker(built, name) == IF name \in built THEN "true" ELSE "false"

\* super().mark_index_built(name): persist the marker as built.
PersistMarker(built, name) == built \cup {name}

\* A faulty variant of InCache: the cache is never found to hold an entry.
InCache_Never(cache, name) == FALSE

\* `migration_name in self._index_migration_cache`
InCache(cache, name) == cache[name] # "absent"

\* A faulty variant of ShouldPurge: mark_index_built leaves the cache entry in place.
ShouldPurge_Never(cache, name) == FALSE

\* mark_index_built, line 170: the entry is deleted when there is one.
ShouldPurge(cache, name) == InCache(cache, name)

IdxAllIdle == \A t \in Threads : idx_pc[t] = "idle"

IdxInit ==
    /\ idx_built = {}
    /\ idx_cache = [n \in MigrationNames |-> "absent"]
    /\ idx_pc = [t \in Threads |-> "idle"]
    /\ idx_call = [t \in Threads |-> NoCall]
    /\ idx_tmp = [t \in Threads |-> "none"]
    /\ idx_ret = [t \in Threads |-> "none"]
    /\ idx_marked = {}
    /\ idx_after_mark = [t \in Threads |-> FALSE]
    /\ idx_last_done = NoCall
    /\ idx_prev = [t \in Threads |-> NoCall]
    /\ idx_seen_false = {}
    /\ idx_queries = [n \in MigrationNames |-> 0]
    /\ idx_qval = [n \in MigrationNames |-> "none"]

\* What a thread records when its call begins.
IdxBegin(t, op, n) ==
    /\ idx_pc[t] = "idle"
    /\ idx_call' = [idx_call EXCEPT ![t] = [op |-> op, name |-> n]]
    /\ idx_ret' = [idx_ret EXCEPT ![t] = "none"]
    /\ idx_after_mark' = [idx_after_mark EXCEPT ![t] = n \in idx_marked]
    /\ idx_prev' = [idx_prev EXCEPT ![t] = idx_last_done]

\* has_built_index, line 162: `if migration_name not in self._index_migration_cache`.
HbiCheck(t, n) ==
    /\ IdxBegin(t, "has_built_index", n)
    /\ idx_pc' = [idx_pc EXCEPT ![t] =
                     IF InCache(idx_cache, n) THEN "hbi_read" ELSE "hbi_query"]
    /\ UNCHANGED <<idx_built, idx_cache, idx_tmp, idx_marked, idx_last_done,
                   idx_seen_false, idx_queries, idx_qval, idxRest>>

\* lines 163-165, right-hand side: super().has_built_index(migration_name).
HbiQuery(t) ==
    /\ idx_pc[t] = "hbi_query"
    /\ idx_tmp' = [idx_tmp EXCEPT ![t] = QueryMarker(idx_built, idx_call[t].name)]
    /\ idx_pc' = [idx_pc EXCEPT ![t] = "hbi_store"]
    /\ idx_queries' = [idx_queries EXCEPT ![idx_call[t].name] = IF @ < 2 THEN @ + 1 ELSE 2]
    /\ idx_qval' = [idx_qval EXCEPT ![idx_call[t].name] =
                        QueryMarker(idx_built, idx_call[t].name)]
    /\ UNCHANGED <<idx_built, idx_cache, idx_call, idx_ret, idx_marked,
                   idx_after_mark, idx_last_done, idx_prev, idx_seen_false, idxRest>>

\* line 163: the query's result is stored in the cache.
HbiStore(t) ==
    /\ idx_pc[t] = "hbi_store"
    /\ idx_cache' = [idx_cache EXCEPT ![idx_call[t].name] = idx_tmp[t]]
    /\ idx_tmp' = [idx_tmp EXCEPT ![t] = "none"]
    /\ idx_pc' = [idx_pc EXCEPT ![t] = "hbi_read"]
    /\ UNCHANGED <<idx_built, idx_call, idx_ret, idx_marked, idx_after_mark,
                   idx_last_done, idx_prev, idx_seen_false, idx_queries, idx_qval,
                   idxRest>>

\* line 166: `return self._index_migration_cache[migration_name]`; the
\* subscript raises KeyError when the entry was deleted in the meantime.
HbiReturn(t) ==
    /\ idx_pc[t] = "hbi_read"
    /\ LET v == idx_cache[idx_call[t].name] IN
        /\ idx_ret' = [idx_ret EXCEPT ![t] = IF v = "absent" THEN "KeyError" ELSE v]
        /\ idx_seen_false' = IF v = "false"
                             THEN idx_seen_false \cup {idx_call[t].name}
                             ELSE idx_seen_false
    /\ idx_pc' = [idx_pc EXCEPT ![t] = "idle"]
    /\ idx_last_done' = idx_call[t]
    /\ UNCHANGED <<idx_built, idx_cache, idx_call, idx_tmp, idx_marked,
                   idx_after_mark, idx_prev, idx_queries, idx_qval, idxRest>>

\* mark_index_built, line 169: super().mark_index_built(migration_name).
MibPersist(t, n) ==
    /\ IdxBegin(t, "mark_index_built", n)
    /\ idx_built' = PersistMarker(idx_built, n)
    /\ idx_pc' = [idx_pc EXCEPT ![t] = "mib_check"]
    /\ idx_queries' = [idx_queries EXCEPT ![n] = 0]
    /\ idx_qval' = [idx_qval EXCEPT ![n] = "none"]
    /\ UNCHANGED <<idx_cache, idx_tmp, idx_marked, idx_last_done, idx_seen_false,
                   idxRest>>

\* line 170: `if migration_name in self._index_migration_cache`; without an
\* entry the call returns here.
MibCheck(t) ==
    /\ idx_pc[t] = "mib_check"
    /\ IF ShouldPurge(idx_cache, idx_call[t].name)
       THEN /\ idx_pc' = [idx_pc EXCEPT ![t] = "mib_del"]
            /\ UNCHANGED <<idx_ret, idx_marked, idx_last_done>>
       ELSE /\ idx_pc' = [idx_pc EXCEPT ![t] = "idle"]
            /\ idx_ret' = [idx_ret EXCEPT ![t] = "returned"]
            /\ idx_marked' = idx_marked \cup {idx_call[t].name}
            /\ idx_last_done' = idx_call[t]
    /\ UNCHANGED <<idx_built, idx_cache, idx_call, idx_tmp, idx_after_mark,
                   idx_prev, idx_seen_false, idx_queries, idx_qval, idxRest>>

\* line 171: `del self._index_migration_cache[migration_name]`; KeyError when
\* another thread deleted the entry after the test of line 170.
MibDelete(t) ==
    /\ idx_pc[t] = "mib_del"
    /\ IF idx_cache[idx_call[t].name] = "absent"
       THEN /\ idx_ret' = [idx_ret EXCEPT ![t] = "KeyError"]
            /\ UNCHANGED <<idx_cache, idx_marked>>
       ELSE /\ idx_cache' = [idx_cache EXCEPT ![idx_call[t].name] = "absent"]
            /\ idx_ret' = [idx_ret EXCEPT ![t] = "returned"]
            /\ idx_marked' = idx_marked \cup {idx_call[t].name}
    /\ idx_pc' = [idx_pc EXCEPT ![t] = "idle"]
    /\ idx_last_done' = idx_call[t]
    /\ UNCHANGED <<idx_built, idx_call, idx_tmp, idx_after_mark, idx_prev,
                   idx_seen_false, idx_queries, idx_qval, idxRest>>

\* Threads of one process calling into the handle at will.
IdxNext ==
    \/ \E t \in Threads, n \in MigrationNames : HbiCheck(t, n)
    \/ \E t \in Threads : HbiQuery(t)
    \/ \E t \in Threads : HbiStore(t)
    \/ \E t \in Threads : HbiReturn(t)
    \/ \E t \in Threads, n \in MigrationNames : MibPersist(t, n)
    \/ \E t \in Threads : MibCheck(t)
    \/ \E t \in Threads : MibDelete(t)

\* The handle used sequentially: a call begins only when none is running.
IdxSeqNext ==
    \/ \E t \in Threads, n \in MigrationNames : IdxAllIdle /\ HbiCheck(t, n)
    \/ \E t \in Threads : HbiQuery(t)
    \/ \E t \in Threads : HbiStore(t)
    \/ \E t \in Threads : HbiReturn(t)
    \/ \E t \in Threads, n \in MigrationNames : IdxAllIdle /\ MibPersist(t, n)
    \/ \E t \in Threads : MibCheck(t)
    \/ \E t \in Threads : MibDelete(t)

----------------------------------------------------------------------------
(***************************************************************************)
(* __init__ and _init_db: the schema bootstrap                             *)
(*                                                                         *)
(* The engine runs in AUTOCOMMIT (line 81): every CREATE TABLE and the     *)
(* stamp take effect, and become visible to other processes, one by one;   *)
(* `conn.begin()` groups nothing at the database.                          *)
(***************************************************************************)

\* The tables of RunStorageSqlMetadata, in the order create_all creates them.
RunStorageTables ==
    <<"snapshots", "runs", "run_tags", "secondary_indexes", "daemon_heartbeats",
      "bulk_actions", "instance_info", "kvs">>

AllTables == {RunStorageTables[i] : i \in 1..Len(RunStorageTables)}

\* Alembic revisions: the head of this code's migration scripts and an older one.
HeadRevision == "head"
Revisions == {"old", HeadRevision}

\* retry_pg_creation_fn(fn, retry_limit=5): retries after the first attempt.
RetryLimit == 5

\* What one round trip to the server can meet: success, a transient
\* infrastructure failure (connection refused, too many connections), or a
\* failure that is not transient (authentication, missing database).
Outcomes == {"ok", "transient", "fatal"}

\* retry_pg_connection_fn(fn, retry_limit=5): retries after the first attempt.
ConnRetryLimit == 5

\* A faulty variant of NeedsInstanceInfo: the auxiliary table is never found missing.
NeedsInstanceInfo_Never(table_names) == FALSE

\* A faulty variant of NeedsInitDb: the bootstrap is run whatever the probe found.
NeedsInitDb_Always(table_names) == TRUE

\* A faulty variant of NeedsInitDb: the probe's result is tested for the wrong table.
NeedsInitDb_WrongTable(table_names) == "instance_info" \notin table_names

\* line 91: `if "runs" not in table_names`
NeedsInitDb(table_names) == "runs" \notin table_names

\* line 95: `elif "instance_info" not in table_names`
NeedsInstanceInfo(table_names) == "instance_info" \notin table_names

\* RunStorageSqlMetadata.create_all(conn), checkfirst: the tables that do not
\* exist yet, in creation order.
CreateAllTodo(existing) == SelectSeq(RunStorageTables, LAMBDA t : t \notin existing)

\* CREATE TABLE t: fails with DuplicateTable when t exists.
PgCreateTable(tables, t) ==
    IF t \in tables
    THEN [tables |-> tables, status |-> "DuplicateTable"]
    ELSE [tables |-> tables \cup {t}, status |-> "ok"]

\* stamp_alembic_rev(pg_alembic_config(__file__), conn): the stamp becomes the
\* head revision of this code's migration scripts, whatever it was.
StampAlembicRev(stamp) == HeadRevision

CtInProgress(p) == ct_pc[p] \notin {"new", "done", "failed", "stopped"}

\* No process has begun to construct its store.
CtNoneConstructed ==
    /\ ct_pc = [p \in Procs |-> "new"]
    /\ ct_autocreate = [p \in Procs |-> TRUE]
    /\ ct_names = [p \in Procs |-> {}]
    /\ ct_todo = [p \in Procs |-> <<>>]
    /\ ct_retries = [p \in Procs |-> RetryLimit]
    /\ ct_created = [p \in Procs |-> {}]
    /\ ct_before = [p \in Procs |-> [tables |-> {}, stamp |-> "none"]]
    /\ ct_result = [p \in Procs |-> "none"]
    /\ ct_migrated = [p \in Procs |-> FALSE]
    /\ ct_conn_retries = [p \in Procs |-> ConnRetryLimit]
    /\ ct_conn = [p \in Procs |-> 0]
    /\ ct_cause = [p \in Procs |-> "none"]
    /\ ct_streak = [p \in Procs |-> "none"]

\* The database before a store of this role is constructed: fresh; or
\* stamped by a sibling storage role (which may have created the shared
\* instance_info table); or holding this role's tables from an earlier
\* construction, with or without instance_info.
CtInit ==
    /\ \/ db_tables = {} /\ db_stamp = "none"
       \/ db_tables \in {{}, {"instance_info"}, AllTables \ {"instance_info"}, AllTables}
          /\ db_stamp \in Revisions
    /\ CtNoneConstructed

\* The database the other components work on: initialized.
CtInitDone ==
    /\ db_tables = AllTables /\ db_stamp = HeadRevision
    /\ CtNoneConstructed

\* Every process has constructed its store on an initialized database.
CtAllConstructed ==
    /\ db_tables = AllTables /\ db_stamp \in Revisions
    /\ ct_pc = [p \in Procs |-> "done"]
    /\ ct_autocreate = [p \in Procs |-> TRUE]
    /\ ct_names = [p \in Procs |-> AllTables]
    /\ ct_todo = [p \in Procs |-> <<>>]
    /\ ct_retries = [p \in Procs |-> RetryLimit]
    /\ ct_created = [p \in Procs |-> {}]
    /\ ct_before = [p \in Procs |-> [tables |-> db_tables, stamp |-> db_stamp]]
    /\ ct_result = [p \in Procs |-> "ok"]
    /\ ct_migrated = [p \in Procs |-> FALSE]
    /\ ct_conn_retries = [p \in Procs |-> ConnRetryLimit]
    /\ ct_conn = [p \in Procs |-> 0]
    /\ ct_cause = [p \in Procs |-> "none"]
    /\ ct_streak = [p \in Procs |-> "none"]

\* __init__, lines 72-89: the engine and the empty cache are made; without
\* autocreate the constructor is done.
CtStart(p, autocreate) ==
    /\ ct_pc[p] = "new"
    /\ ct_autocreate' = [ct_autocreate EXCEPT ![p] = autocreate]
    /\ ct_before' = [ct_before EXCEPT ![p] = [tables |-> db_tables, stamp |-> db_stamp]]
    /\ IF autocreate
       THEN /\ ct_pc' = [ct_pc EXCEPT ![p] = "probe"]
            /\ ct_streak' = [ct_streak EXCEPT ![p] = "probe"]
            /\ UNCHANGED ct_result
       ELSE /\ ct_pc' = [ct_pc EXCEPT ![p] = "done"]
            /\ ct_result' = [ct_result EXCEPT ![p] = "ok"]
            /\ UNCHANGED ct_streak
    /\ UNCHANGED <<db_tables, db_stamp, ct_names, ct_todo, ct_retries, ct_created,
                   ct_migrated, ct_conn_retries, ct_conn, ct_cause, ctRest>>

\* __init__ is left by an exception: the failure `cause` raised `exception`.
\* A connection held by _init_db's with block is released on the way out,
\* and the frames of the retry functions and of create_all are gone.
CtRaise(p, exception, cause) ==
    /\ ct_pc' = [ct_pc EXCEPT ![p] = "failed"]
    /\ ct_result' = [ct_result EXCEPT ![p] = exception]
    /\ ct_cause' = [ct_cause EXCEPT ![p] = cause]
    /\ ct_conn' = [ct_conn EXCEPT ![p] = 0]
    /\ ct_todo' = [ct_todo EXCEPT ![p] = <<>>]
    /\ ct_retries' = [ct_retries EXCEPT ![p] = RetryLimit]
    /\ ct_conn_retries' = [ct_conn_retries EXCEPT ![p] = ConnRetryLimit]

\* A faulty variant of ConnRetriesExhausted: the failure is swallowed and
\* __init__ returns a handle.
ConnRetriesExhausted_ReturnsHandle(p) ==
    /\ ct_pc' = [ct_pc EXCEPT ![p] = "done"]
    /\ ct_result' = [ct_result EXCEPT ![p] = "ok"]
    /\ ct_conn' = [ct_conn EXCEPT ![p] = 0]
    /\ ct_todo' = [ct_todo EXCEPT ![p] = <<>>]
    /\ ct_retries' = [ct_retries EXCEPT ![p] = RetryLimit]
    /\ ct_conn_retries' = [ct_conn_retries EXCEPT ![p] = ConnRetryLimit]
    /\ UNCHANGED ct_cause

\* retry_pg_connection_fn (lines 90 and 155, the latter under line 102) met a
\* transient failure with no retry left: DagsterPostgresException leaves
\* __init__.
ConnRetriesExhausted(p) == CtRaise(p, "DagsterPostgresException", "transient")

\* lines 90-95: the probe, db.inspect(engine).get_table_names(), run by
\* retry_pg_connection_fn, and the choice of what to create.
CtProbe(p, outcome) ==
    /\ ct_pc[p] = "probe"
    /\ CASE outcome = "ok" ->
              /\ ct_names' = [ct_names EXCEPT ![p] = db_tables]
              /\ ct_conn_retries' = [ct_conn_retries EXCEPT ![p] = ConnRetryLimit]
              /\ IF NeedsInitDb(db_tables)
                 THEN /\ ct_pc' = [ct_pc EXCEPT ![p] = "init_db"]
                      /\ ct_streak' = [ct_streak EXCEPT ![p] = "bootstrap"]
                      /\ UNCHANGED ct_result
                 ELSE IF NeedsInstanceInfo(db_tables)
                 THEN /\ ct_pc' = [ct_pc EXCEPT ![p] = "instance_info"]
                      /\ ct_streak' = [ct_streak EXCEPT ![p] = "instance_info"]
                      /\ UNCHANGED ct_result
                 ELSE /\ ct_pc' = [ct_pc EXCEPT ![p] = "done"]
                      /\ ct_result' = [ct_result EXCEPT ![p] = "ok"]
                      /\ ct_streak' = [ct_streak EXCEPT ![p] = "none"]
              /\ UNCHANGED <<ct_cause, ct_conn, ct_todo, ct_retries>>
         [] outcome = "transient" /\ ct_conn_retries[p] > 0 ->
              /\ ct_conn_retries' = [ct_conn_retries EXCEPT ![p] = @ - 1]
              /\ UNCHANGED <<ct_names, ct_pc, ct_result, ct_cause, ct_conn, ct_streak,
                             ct_todo, ct_retries>>
         [] outcome = "transient" /\ ct_conn_retries[p] = 0 ->
              /\ ConnRetriesExhausted(p)
              /\ UNCHANGED <<ct_names, ct_streak>>
         [] outcome = "fatal" ->
              /\ CtRaise(p, "OperationalError", "fatal")
              /\ ct_streak' = [ct_streak EXCEPT ![p] = "none"]
              /\ UNCHANGED ct_names
    /\ UNCHANGED <<db_tables, db_stamp, ct_autocreate, ct_created, ct_before,
                   ct_migrated, ctRest>>

\* retry_pg_creation_fn (line 92) after an attempt of _init_db ended in a
\* failure it retries: _init_db is started again while retries are left, and
\* DagsterPostgresException is raised when none is.  The attempt's with
\* block has been left, its connection released.
CtRetryCreation(p, cause) ==
    IF ct_retries[p] = 0
    THEN CtRaise(p, "DagsterPostgresException", cause)
    ELSE /\ ct_pc' = [ct_pc EXCEPT ![p] = "init_db"]
         /\ ct_todo' = [ct_todo EXCEPT ![p] = <<>>]
         /\ ct_retries' = [ct_retries EXCEPT ![p] = @ - 1]
         /\ ct_conn_retries' = [ct_conn_retries EXCEPT ![p] = ConnRetryLimit]
         /\ ct_conn' = [ct_conn EXCEPT ![p] = 0]
         /\ UNCHANGED <<ct_result, ct_cause>>

\* _init_db, lines 101-103: one attempt begins.  connect() acquires a
\* connection (retry_pg_connection_fn, as in every use of connect()), then
\* create_all looks up which of its tables exist.
CtInitDbBegin(p, outcome) ==
    /\ ct_pc[p] = "init_db"
    /\ CASE outcome = "ok" ->
              /\ ct_conn' = [ct_conn EXCEPT ![p] = 1]
              /\ ct_todo' = [ct_todo EXCEPT ![p] = CreateAllTodo(db_tables)]
              /\ ct_pc' = [ct_pc EXCEPT ![p] =
                              IF CreateAllTodo(db_tables) = <<>> THEN "stamp" ELSE "create"]
              /\ ct_streak' = [ct_streak EXCEPT ![p] = "none"]
              /\ ct_conn_retries' = [ct_conn_retries EXCEPT ![p] = ConnRetryLimit]
              /\ UNCHANGED <<ct_result, ct_cause, ct_retries>>
         [] outcome = "transient" /\ ct_conn_retries[p] > 0 ->
              /\ ct_conn_retries' = [ct_conn_retries EXCEPT ![p] = @ - 1]
              /\ UNCHANGED <<ct_conn, ct_todo, ct_pc, ct_result, ct_cause, ct_streak,
                             ct_retries>>
         [] outcome = "transient" /\ ct_conn_retries[p] = 0 ->
              /\ ConnRetriesExhausted(p)
              /\ UNCHANGED ct_streak
         [] outcome = "fatal" ->
              /\ CtRaise(p, "OperationalError", "fatal")
              /\ ct_streak' = [ct_streak EXCEPT ![p] = "none"]
    /\ UNCHANGED <<db_tables, db_stamp, ct_autocreate, ct_names, ct_created,
                   ct_before, ct_migrated, ctRest>>

\* line 103, create_all: CREATE TABLE for the next table it found missing.
\* DuplicateTable, or a transient failure of the statement, ends the attempt
\* and is left to retry_pg_creation_fn; any other failure leaves __init__.
CtCreateTable(p, outcome) ==
    /\ ct_pc[p] = "create"
    /\ LET t == Head(ct_todo[p])
           out == PgCreateTable(db_tables, t) IN
       CASE outcome = "ok" /\ out.status = "ok" ->
              /\ db_tables' = out.tables
              /\ ct_created' = [ct_created EXCEPT ![p] = @ \cup {t}]
              /\ ct_todo' = [ct_todo EXCEPT ![p] = Tail(@)]
              /\ ct_pc' = [ct_pc EXCEPT ![p] =
                              IF Tail(ct_todo[p]) = <<>> THEN "stamp" ELSE "create"]
              /\ UNCHANGED <<ct_retries, ct_result, ct_conn_retries, ct_conn, ct_cause>>
         [] outcome = "ok" /\ out.status # "ok" ->
              /\ CtRetryCreation(p, "DuplicateTable")
              /\ UNCHANGED <<db_tables, ct_created>>
         [] outcome = "transient" ->
              /\ CtRetryCreation(p, "transient")
              /\ UNCHANGED <<db_tables, ct_created>>
         [] outcome = "fatal" ->
              /\ CtRaise(p, "OperationalError", "fatal")
              /\ UNCHANGED <<db_tables, ct_created>>
    /\ UNCHANGED <<db_stamp, ct_autocreate, ct_names, ct_before, ct_migrated,
                   ct_streak, ctRest>>

\* _init_db, line 105: stamp_alembic_rev; the with blocks end, the
\* connection is released and the attempt is over.
CtStamp(p, outcome) ==
    /\ ct_pc[p] = "stamp"
    /\ CASE outcome = "ok" ->
              /\ db_stamp' = StampAlembicRev(db_stamp)
              /\ ct_pc' = [ct_pc EXCEPT ![p] = "migrate"]
              /\ ct_conn' = [ct_conn EXCEPT ![p] = 0]
              /\ UNCHANGED <<ct_retries, ct_result, ct_conn_retries, ct_cause, ct_todo>>
         [] outcome = "transient" ->
              /\ CtRetryCreation(p, "transient")
              /\ UNCHANGED db_stamp
         [] outcome = "fatal" ->
              /\ CtRaise(p, "OperationalError", "fatal")
              /\ UNCHANGED db_stamp
    /\ UNCHANGED <<db_tables, ct_autocreate, ct_names, ct_created, ct_before,
                   ct_migrated, ct_streak, ctRest>>

\* lines 93-94: self.migrate() and self.optimize(), then the constructor ends.
CtMigrate(p) ==
    /\ ct_pc[p] = "migrate"
    /\ ct_migrated' = [ct_migrated EXCEPT ![p] = TRUE]
    /\ ct_pc' = [ct_pc EXCEPT ![p] = "done"]
    /\ ct_result' = [ct_result EXCEPT ![p] = "ok"]
    /\ UNCHANGED <<db_tables, db_stamp, ct_autocreate, ct_names, ct_todo,
                   ct_retries, ct_created, ct_before, ct_conn_retries, ct_conn,
                   ct_cause, ct_streak, ctRest>>

\* line 96: InstanceInfo.create(self._engine), a bare CREATE TABLE outside
\* any retry: whatever it raises leaves __init__ at once.
CtInstanceInfo(p, outcome) ==
    /\ ct_pc[p] = "instance_info"
    /\ LET out == PgCreateTable(db_tables, "instance_info") IN
       CASE outcome = "ok" /\ out.status = "ok" ->
              /\ db_tables' = out.tables
              /\ ct_created' = [ct_created EXCEPT ![p] = @ \cup {"instance_info"}]
              /\ ct_pc' = [ct_pc EXCEPT ![p] = "done"]
              /\ ct_result' = [ct_result EXCEPT ![p] = "ok"]
              /\ ct_streak' = [ct_streak EXCEPT ![p] = "none"]
              /\ UNCHANGED <<ct_cause, ct_conn, ct_todo, ct_retries, ct_conn_retries>>
         [] outcome = "ok" /\ out.status # "ok" ->
              /\ CtRaise(p, "ProgrammingError", "DuplicateTable")
              /\ ct_streak' = [ct_streak EXCEPT ![p] = "none"]
              /\ UNCHANGED <<db_tables, ct_created>>
         [] outcome = "transient" ->
              /\ CtRaise(p, "OperationalError", "transient")
              /\ UNCHANGED <<db_tables, ct_created, ct_streak>>
         [] outcome = "fatal" ->
              /\ CtRaise(p, "OperationalError", "fatal")
              /\ ct_streak' = [ct_streak EXCEPT ![p] = "none"]
              /\ UNCHANGED <<db_tables, ct_created>>
    /\ UNCHANGED <<db_stamp, ct_autocreate, ct_names, ct_before, ct_migrated,
                   ctRest>>

\* The process is stopped in the middle of __init__ (killed, or its host
\* lost): it takes no further step and the server closes its connection.
CtCrash(p) ==
    /\ CtInProgress(p)
    /\ ct_pc' = [ct_pc EXCEPT ![p] = "stopped"]
    /\ ct_conn' = [ct_conn EXCEPT ![p] = 0]
    /\ ct_todo' = [ct_todo EXCEPT ![p] = <<>>]
    /\ ct_retries' = [ct_retries EXCEPT ![p] = RetryLimit]
    /\ ct_conn_retries' = [ct_conn_retries EXCEPT ![p] = ConnRetryLimit]
    /\ UNCHANGED <<db_tables, db_stamp, ct_autocreate, ct_names, ct_created,
                   ct_before, ct_result, ct_migrated, ct_cause, ct_streak, ctRest>>

\* Processes constructing their stores concurrently, every round trip
\* succeeding.
CtNext ==
    \/ \E p \in Procs, a \in BOOLEAN : CtStart(p, a)
    \/ \E p \in Procs : CtProbe(p, "ok")
    \/ \E p \in Procs : CtInitDbBegin(p, "ok")
    \/ \E p \in Procs : CtCreateTable(p, "ok")
    \/ \E p \in Procs : CtStamp(p, "ok")
    \/ \E p \in Procs : CtMigrate(p)
    \/ \E p \in Procs : CtInstanceInfo(p, "ok")

\* Stores constructed one after another, every round trip succeeding.
CtSeqNext ==
    \/ \E p \in Procs, a \in BOOLEAN :
          (\A q \in Procs : ~CtInProgress(q)) /\ CtStart(p, a)
    \/ \E p \in Procs : CtProbe(p, "ok")
    \/ \E p \in Procs : CtInitDbBegin(p, "ok")
    \/ \E p \in Procs : CtCreateTable(p, "ok")
    \/ \E p \in Procs : CtStamp(p, "ok")
    \/ \E p \in Procs : CtMigrate(p)
    \/ \E p \in Procs : CtInstanceInfo(p, "ok")

\* The steps process p takes inside __init__, each round trip meeting any
\* outcome.
CtRun(p) ==
    \/ \E outcome \in Outcomes : CtProbe(p, outcome)
    \/ \E outcome \in Outcomes : CtInitDbBegin(p, outcome)
    \/ \E outcome \in Outcomes : CtCreateTable(p, outcome)
    \/ \E outcome \in Outcomes : CtStamp(p, outcome)
    \/ CtMigrate(p)
    \/ \E outcome \in Outcomes : CtInstanceInfo(p, outcome)

\* Stores constructed one after another against a server whose round trips
\* can fail, by processes that can be stopped.
CtFaultNext ==
    \/ \E p \in Procs, a \in BOOLEAN :
          (\A q \in Procs : ~CtInProgress(q)) /\ CtStart(p, a)
    \/ \E p \in Procs, outcome \in Outcomes : CtProbe(p, outcome)
    \/ \E p \in Procs, outcome \in Outcomes : CtInitDbBegin(p, outcome)
    \/ \E p \in Procs, outcome \in Outcomes : CtCreateTable(p, outcome)
    \/ \E p \in Procs, outcome \in Outcomes : CtStamp(p, outcome)
    \/ \E p \in Procs : CtMigrate(p)
    \/ \E p \in Procs, outcome \in Outcomes : CtInstanceInfo(p, outcome)
    \/ \E p \in Procs : CtCrash(p)

----------------------------------------------------------------------------
(***************************************************************************)
(* The engine, connect() and the operations scoped by it                   *)
(*                                                                         *)
(* upgrade, add_daemon_heartbeat, kvs_set and alembic_version run their    *)
(* body inside `with self.connect() as conn:`.  Here an operation is its   *)
(* connection scope: the acquisition with its retries, the body's round    *)
(* trip, the release.  What the two upserts do to their tables is modelled *)
(* in their own sections above.                                            *)
(***************************************************************************)

\* The operations that go through connect(), on a constructed handle.
OpKinds == {"upgrade", "add_daemon_heartbeat", "kvs_set", "alembic_version"}

\* The `options` of postgres_url's query string: none, or one configured.
UrlOptions == {"", "-c search_path=dagster"}

MaxStatementTimeout == 2
StatementTimeouts == 1..MaxStatementTimeout
PoolRecycles == {3600}

\* pg_statement_timeout(millis)
pg_statement_timeout(millis) == "-c statement_timeout=" \o ToString(millis)

\* lines 79-83: create_engine(postgres_url, isolation_level="AUTOCOMMIT",
\* poolclass=NullPool).
DefaultEngine(url_options) ==
    [url_options          |-> url_options,
     isolation_level      |-> "AUTOCOMMIT",
     poolclass            |-> "NullPool",
     pool_size            |-> 0,
     has_connect_args     |-> FALSE,
     connect_args_options |-> "",
     pool_recycle         |-> -1]

\* lines 115-121: create_engine(postgres_url, isolation_level="AUTOCOMMIT",
\* pool_size=1, connect_args={"options": options}, pool_recycle=pool_recycle).
DagitEngine(url_options, options, pool_recycle) ==
    [url_options          |-> url_options,
     isolation_level      |-> "AUTOCOMMIT",
     poolclass            |-> "QueuePool",
     pool_size            |-> 1,
     has_connect_args     |-> TRUE,
     connect_args_options |-> options,
     pool_recycle         |-> pool_recycle]

\* The options a connection of the engine is opened with: the connect_args
\* given to create_engine override those of the URL's query.
ConnectionOptions(engine) ==
    IF engine.has_connect_args THEN engine.connect_args_options
    ELSE engine.url_options

\* A faulty variant of ExistingOptions: the options in force on the engine
\* being replaced are taken for the configured ones.
ExistingOptions_InForce(engine) == ConnectionOptions(engine)

\* line 109: self._engine.url.query.get("options")
ExistingOptions(engine) == engine.url_options

\* lines 111-114
OptimizeOptions(timeout_option, existing_options) ==
    IF existing_options # ""
    THEN timeout_option \o " " \o existing_options
    ELSE timeout_option

\* A faulty variant of PoolKeepsOpen: every engine keeps its connection open.
PoolKeepsOpen_Always(engine) == TRUE

\* What the engine's pool does with a connection that is released: NullPool
\* (line 82) closes it, the pool of pool_size=1 (line 118) keeps it open.
PoolKeepsOpen(engine) == engine.poolclass = "QueuePool"

\* run_alembic_upgrade(pg_alembic_config(__file__), conn): every pending
\* migration is applied, up to the head revision.
RunAlembicUpgrade(stamp) == HeadRevision

\* check_alembic_revision(alembic_config, conn): the revision read over conn
\* and the head revision of the migration scripts.
CheckAlembicRevision(stamp) == [db_revision |-> stamp, head_revision |-> HeadRevision]

NoRevision == [db_revision |-> "none", head_revision |-> "none"]

\* A faulty variant of AlembicVersionRead: the handle answers from what its
\* previous call returned.
AlembicVersionRead_Remembered(h) ==
    IF op_last_ret[h] # NoRevision THEN op_last_ret[h]
    ELSE CheckAlembicRevision(db_stamp)

\* lines 222-223: the revision is queried over the connection just acquired.
AlembicVersionRead(h) == CheckAlembicRevision(db_stamp)

OpAllIdle == \A h \in Procs : op_pc[h] = "idle"

\* The handles as __init__ leaves them: the default engine, nothing open.
\* The URL of p1 carries a connection option, the URL of p2 carries none.
OpInit ==
    /\ op_postgres_url = [h \in Procs |-> IF h = "p1" THEN "-c search_path=dagster" ELSE ""]
    /\ op_engine = [h \in Procs |-> DefaultEngine(op_postgres_url[h])]
    /\ op_timeouts = [h \in Procs |-> <<>>]
    /\ op_pool_idle = [h \in Procs |-> 0]
    /\ op_conn = [h \in Procs |-> 0]
    /\ op_pc = [h \in Procs |-> "idle"]
    /\ op_kind = [h \in Procs |-> "none"]
    /\ op_retries = [h \in Procs |-> ConnRetryLimit]
    /\ op_result = [h \in Procs |-> "none"]
    /\ op_cause = [h \in Procs |-> "none"]
    /\ op_ret = [h \in Procs |-> NoRevision]
    /\ op_last_ret = [h \in Procs |-> NoRevision]

\* optimize_for_dagit(statement_timeout, pool_recycle), lines 107-121: the
\* engine is replaced; the new engine's pool starts empty.
OptimizeForDagit(h, statement_timeout, pool_recycle) ==
    /\ ct_pc[h] = "done"
    /\ op_pc[h] = "idle"
    /\ LET existing_options == ExistingOptions(op_engine[h])
           timeout_option == pg_statement_timeout(statement_timeout)
           options == OptimizeOptions(timeout_option, existing_options)
       IN op_engine' = [op_engine EXCEPT ![h] =
                           DagitEngine(op_postgres_url[h], options, pool_recycle)]
    /\ op_pool_idle' = [op_pool_idle EXCEPT ![h] = 0]
    /\ op_timeouts' = [op_timeouts EXCEPT ![h] =
                          IF @ = <<>> THEN <<statement_timeout>>
                          ELSE <<@[Len(@)], statement_timeout>>]
    /\ UNCHANGED <<op_postgres_url, op_conn, op_pc, op_kind, op_retries, op_result,
                   op_cause, op_ret, op_last_ret, ctVars, opRest>>

\* One of upgrade, add_daemon_heartbeat, kvs_set, alembic_version is called
\* and reaches `with self.connect() as conn:`.
OpCall(h, kind) ==
    /\ ct_pc[h] = "done"
    /\ op_pc[h] = "idle"
    /\ op_pc' = [op_pc EXCEPT ![h] = "connect"]
    /\ op_kind' = [op_kind EXCEPT ![h] = kind]
    /\ UNCHANGED <<op_postgres_url, op_engine, op_timeouts, op_pool_idle, op_conn,
                   op_retries, op_result, op_cause, op_ret, op_last_ret,
                   ctVars, opRest>>

\* connect(), line 155: create_pg_connection(self._engine) acquires a
\* connection by retry_pg_connection_fn(engine.connect).  A transient failure
\* is retried while retries are left and raises DagsterPostgresException when
\* none is; a failure that is not transient is raised at once.
OpConnect(h, outcome) ==
    /\ op_pc[h] = "connect"
    /\ CASE outcome = "ok" ->
              /\ op_conn' = [op_conn EXCEPT ![h] = 1]
              /\ op_pool_idle' = [op_pool_idle EXCEPT ![h] = 0]
              /\ op_pc' = [op_pc EXCEPT ![h] = "body"]
              /\ UNCHANGED <<op_retries, op_result, op_cause>>
         [] outcome = "transient" /\ op_retries[h] > 0 ->
              /\ op_retries' = [op_retries EXCEPT ![h] = @ - 1]
              /\ UNCHANGED <<op_conn, op_pool_idle, op_pc, op_result, op_cause>>
         [] outcome = "transient" /\ op_retries[h] = 0 ->
              /\ op_pc' = [op_pc EXCEPT ![h] = "exit"]
              /\ op_result' = [op_result EXCEPT ![h] = "DagsterPostgresException"]
              /\ op_cause' = [op_cause EXCEPT ![h] = "transient"]
              /\ UNCHANGED <<op_conn, op_pool_idle, op_retries>>
         [] outcome = "fatal" ->
              /\ op_pc' = [op_pc EXCEPT ![h] = "exit"]
              /\ op_result' = [op_result EXCEPT ![h] = "OperationalError"]
              /\ op_cause' = [op_cause EXCEPT ![h] = "fatal"]
              /\ UNCHANGED <<op_conn, op_pool_idle, op_retries>>
    /\ UNCHANGED <<op_postgres_url, op_engine, op_timeouts, op_kind, op_ret,
                   op_last_ret, ctVars, opRest>>

\* The body of the with block: run_alembic_upgrade (line 159), conn.execute
\* of an upsert (lines 176, 218) or check_alembic_revision (line 223).  Its
\* round trip succeeds or raises; nothing here retries it.
OpBody(h, outcome) ==
    /\ op_pc[h] = "body"
    /\ op_pc' = [op_pc EXCEPT ![h] = "exit"]
    /\ IF outcome = "ok"
       THEN /\ op_result' = [op_result EXCEPT ![h] = "ok"]
            /\ UNCHANGED op_cause
            /\ db_stamp' = IF op_kind[h] = "upgrade"
                           THEN RunAlembicUpgrade(db_stamp) ELSE db_stamp
            /\ op_ret' = IF op_kind[h] = "alembic_version"
                         THEN [op_ret EXCEPT ![h] = AlembicVersionRead(h)]
                         ELSE op_ret
       ELSE /\ op_result' = [op_result EXCEPT ![h] = "OperationalError"]
            /\ op_cause' = [op_cause EXCEPT ![h] = "statement"]
            /\ UNCHANGED <<db_stamp, op_ret>>
    /\ UNCHANGED <<op_postgres_url, op_engine, op_timeouts, op_pool_idle, op_conn,
                   op_kind, op_retries, op_last_ret, db_tables, ctLocal, opRest>>

\* The call ends, by return or by an exception leaving it.  A connection
\* that was acquired is released to the engine's pool on the way out of the
\* with block (create_pg_connection: `finally: if conn: conn.close()`).
OpExit(h) ==
    /\ op_pc[h] = "exit"
    /\ op_conn' = [op_conn EXCEPT ![h] = 0]
    /\ op_pool_idle' = [op_pool_idle EXCEPT ![h] =
                           IF op_conn[h] = 1 /\ PoolKeepsOpen(op_engine[h])
                           THEN 1 ELSE @]
    /\ op_last_ret' = IF op_kind[h] = "alembic_version" /\ op_result[h] = "ok"
                      THEN [op_last_ret EXCEPT ![h] = op_ret[h]]
                      ELSE op_last_ret
    /\ op_pc' = [op_pc EXCEPT ![h] = "idle"]
    /\ op_kind' = [op_kind EXCEPT ![h] = "none"]
    /\ op_retries' = [op_retries EXCEPT ![h] = ConnRetryLimit]
    /\ op_result' = [op_result EXCEPT ![h] = "none"]
    /\ op_cause' = [op_cause EXCEPT ![h] = "none"]
    /\ op_ret' = [op_ret EXCEPT ![h] = NoRevision]
    /\ UNCHANGED <<op_postgres_url, op_engine, op_timeouts, ctVars, opRest>>

\* Operations issued one after another, by whichever handle.
OpSeqNext ==
    \/ \E h \in Procs, ms \in StatementTimeouts, r \in PoolRecycles :
          OpAllIdle /\ OptimizeForDagit(h, ms, r)
    \/ \E h \in Procs, kind \in OpKinds : OpAllIdle /\ OpCall(h, kind)
    \/ \E h \in Procs, outcome \in Outcomes : OpConnect(h, outcome)
    \/ \E h \in Procs, outcome \in {"ok", "error"} : OpBody(h, outcome)
    \/ \E h \in Procs : OpExit(h)

\* The life of a store: constructed, then used.  StoreHandles are the
\* handles whose operations are followed once constructed, StoreThreads the
\* threads calling the index operations, StoreMigrations the indexes asked
\* about.
StoreHandles == {"p1"}
StoreThreads == {"t1"}
StoreMigrations == {"m1"}

\* Nothing is running: no constructor, no operation, no index call.
StoreQuiet ==
    /\ OpAllIdle
    /\ IdxAllIdle
    /\ \A q \in Procs : ~CtInProgress(q)

\* Index calls are made on a constructed handle.
StoreConstructed == \E h \in Procs : ct_pc[h] = "done"

\* Constructions and calls made one at a time, every round trip succeeding:
\* constructions with and without autocreate on every start database, then
\* optimize_for_dagit, the operations scoped by connect(), has_built_index
\* and mark_index_built.
StoreNext ==
    \/ \E p \in Procs, a \in BOOLEAN : StoreQuiet /\ CtStart(p, a)
    \/ \E p \in Procs : CtProbe(p, "ok")
    \/ \E p \in Procs : CtInitDbBegin(p, "ok")
    \/ \E p \in Procs : CtCreateTable(p, "ok")
    \/ \E p \in Procs : CtStamp(p, "ok")
    \/ \E p \in Procs : CtMigrate(p)
    \/ \E p \in Procs : CtInstanceInfo(p, "ok")
    \/ \E h \in StoreHandles, r \in PoolRecycles :
          StoreQuiet /\ OptimizeForDagit(h, MaxStatementTimeout, r)
    \/ \E h \in StoreHandles, kind \in OpKinds : StoreQuiet /\ OpCall(h, kind)
    \/ \E h \in StoreHandles : OpConnect(h, "ok")
    \/ \E h \in StoreHandles, outcome \in {"ok", "error"} : OpBody(h, outcome)
    \/ \E h \in StoreHandles : OpExit(h)
    \/ \E t \in StoreThreads, n \in StoreMigrations :
          StoreQuiet /\ StoreConstructed /\ HbiCheck(t, n)
    \/ \E t \in StoreThreads : HbiQuery(t)
    \/ \E t \in StoreThreads : HbiStore(t)
    \/ \E t \in StoreThreads : HbiReturn(t)
    \/ \E t \in StoreThreads, n \in StoreMigrations :
          StoreQuiet /\ StoreConstructed /\ MibPersist(t, n)
    \/ \E t \in StoreThreads : MibCheck(t)
    \/ \E t \in StoreThreads : MibDelete(t)

\* Constructions and the operations scoped by connect(), one at a time,
\* against a server whose round trips can fail, by processes that can be
\* stopped.
StoreFaultNext ==
    \/ \E p \in Procs, a \in BOOLEAN : StoreQuiet /\ CtStart(p, a)
    \/ \E p \in Procs, outcome \in Outcomes : CtProbe(p, outcome)
    \/ \E p \in Procs, outcome \in Outcomes : CtInitDbBegin(p, outcome)
    \/ \E p \in Procs, outcome \in Outcomes : CtCreateTable(p, outcome)
    \/ \E p \in Procs, outcome \in Outcomes : CtStamp(p, outcome)
    \/ \E p \in Procs : CtMigrate(p)
    \/ \E p \in Procs, outcome \in Outcomes : CtInstanceInfo(p, outcome)
    \/ \E p \in Procs : CtCrash(p)
    \/ \E h \in StoreHandles, r \in PoolRecycles :
          StoreQuiet /\ OptimizeForDagit(h, MaxStatementTimeout, r)
    \/ \E h \in StoreHandles, kind \in OpKinds : StoreQuiet /\ OpCall(h, kind)
    \/ \E h \in StoreHandles, outcome \in Outcomes : OpConnect(h, outcome)
    \/ \E h \in StoreHandles, outcome \in {"ok", "error"} : OpBody(h, outcome)
    \/ \E h \in StoreHandles : OpExit(h)

----------------------------------------------------------------------------
(***************************************************************************)
(* Specifications: one per component, the other components at rest.        *)
(***************************************************************************)
Init == HbInit /\ KvsInit /\ IdxInit /\ CtInitDone /\ OpInit

\* The bootstrap starts from every database the constructor can meet.
InitCt == HbInit /\ KvsInit /\ IdxInit /\ CtInit /\ OpInit

\* Handles already constructed, on an initialized database whose stamp is
\* the head revision or an older one.
InitOp == HbInit /\ KvsInit /\ IdxInit /\ CtAllConstructed /\ OpInit

SpecHb    == Init /\ [][HbNext]_vars
SpecHbSeq == Init /\ [][HbSeqNext]_vars
SpecKvs   == Init /\ [][KvsNext]_vars
SpecIdx   == Init /\ [][IdxNext]_vars
SpecIdxSeq == Init /\ [][IdxSeqNext]_vars
SpecCt    == InitCt /\ [][CtNext]_vars
SpecCtSeq == InitCt /\ [][CtSeqNext]_vars
SpecCtFault == InitCt /\ [][CtFaultNext]_vars

\* A constructor that has begun keeps taking steps until __init__ is left:
\* it is a sequential program run by a live process, or else a stopped one.
SpecCtFaultFair == SpecCtFault /\ \A p \in Procs : WF_vars(CtRun(p))

SpecStore == InitCt /\ [][StoreNext]_vars
SpecStoreFault == InitCt /\ [][StoreFaultNext]_vars
SpecOpSeq == InitOp /\ [][OpSeqNext]_vars

----------------------------------------------------------------------------
(***************************************************************************)
(* Claims about add_daemon_heartbeat                                       *)
(***************************************************************************)

\* The row of the table holds exactly the fields of heartbeat hb.
HbRowReflects(row, hb) ==
    /\ row.daemon_type = hb.daemon_type
    /\ row.timestamp = [epoch |-> hb.timestamp, tzinfo |-> "UTC"]
    /\ row.daemon_id = hb.daemon_id
    /\ row.body = <<"DaemonHeartbeat", hb.timestamp, hb.daemon_type, hb.daemon_id>>

\* C1: after heartbeats for one daemon type were written one after another,
\* the table holds exactly one row for that type, carrying the timestamp,
\* daemon id and body of the last heartbeat written; the table never holds
\* two rows for one daemon type.
C1_SequentialHeartbeatsLastWins ==
    \A t \in DaemonTypes :
        /\ Cardinality(HbRowsOf(t)) <= 1
        /\ (HbAllIdle /\ hb_last_call[t] # NoHeartbeat) =>
              /\ Cardinality(HbRowsOf(t)) = 1
              /\ \A i \in HbRowsOf(t) : HbRowReflects(hb_table[i], hb_last_call[t])

\* C1 witness: two handles wrote different heartbeats of one type, one after
\* the other, and the row shows the later one.
C1_Witness ==
    /\ HbAllIdle
    /\ hb_result["p1"] = "ok" /\ hb_result["p2"] = "ok"
    /\ hb_arg["p1"].daemon_type = hb_arg["p2"].daemon_type
    /\ hb_arg["p1"].daemon_id # hb_arg["p2"].daemon_id
    /\ hb_arg["p1"].timestamp # hb_arg["p2"].timestamp
    /\ hb_last_call[hb_arg["p2"].daemon_type] = hb_arg["p2"]
    /\ \E i \in HbRowsOf(hb_arg["p2"].daemon_type) :
          HbRowReflects(hb_table[i], hb_arg["p2"])

\* C2: when two processes run add_daemon_heartbeat concurrently for one
\* daemon type, neither statement raises a duplicate-key error and the table
\* holds exactly one row for the type, all of whose fields come from one and
\* the same of the two submitted heartbeats.
C2_ConcurrentHeartbeatsOneRow ==
    /\ \A p \in Procs : hb_result[p] \in {"none", "ok"}
    /\ \A t \in DaemonTypes : Cardinality(HbRowsOf(t)) <= 1
    /\ \A p, q \in Procs :
          (/\ p # q
           /\ hb_pc[p] = "executed" /\ hb_pc[q] = "executed"
           /\ hb_arg[p].daemon_type = hb_arg[q].daemon_type) =>
              /\ Cardinality(HbRowsOf(hb_arg[p].daemon_type)) = 1
              /\ \A i \in HbRowsOf(hb_arg[p].daemon_type) :
                    \/ HbRowReflects(hb_table[i], hb_arg[p])
                    \/ HbRowReflects(hb_table[i], hb_arg[q])

\* C2 witness: both processes were inside the call at the same time, for the
\* same daemon type with different ids and timestamps, and both statements
\* have run.
C2_Witness ==
    /\ hb_pc["p1"] = "executed" /\ hb_pc["p2"] = "executed"
    /\ hb_result["p1"] = "ok" /\ hb_result["p2"] = "ok"
    /\ hb_arg["p1"].daemon_type = hb_arg["p2"].daemon_type
    /\ hb_arg["p1"].daemon_id # hb_arg["p2"].daemon_id
    /\ hb_arg["p1"].timestamp # hb_arg["p2"].timestamp
    /\ Len(hb_table) = 1

----------------------------------------------------------------------------
(***************************************************************************)
(* Claims about kvs_set                                                    *)
(***************************************************************************)

\* The rows of `table` with key k, in table order.
KvsRowSeq(table, k) == SelectSeq(table, LAMBDA r : r.key = k)

\* C8: after any sequence of kvs_set calls the table holds exactly one row
\* for each key ever written and none for any other key; the row's value is
\* the one supplied by the most recent batch that contained the key; there
\* are never two rows for one key.
C8_OneRowPerKeyLatestValue ==
    \A k \in Keys :
        /\ Cardinality(KvsRowsOf(kvs_table, k)) <= 1
        /\ (kvs_last[k] = "none") => KvsRowsOf(kvs_table, k) = {}
        /\ (kvs_last[k] # "none") =>
              /\ Cardinality(KvsRowsOf(kvs_table, k)) = 1
              /\ \A i \in KvsRowsOf(kvs_table, k) : kvs_table[i].value = kvs_last[k]

\* C8 witness: a key that already had a row was written again with another
\* value, in a batch that also wrote a second key.
C8_Witness ==
    /\ kvs_pc = "executed" /\ kvs_result = "ok"
    /\ Len(kvs_arg.items) = 2
    /\ \E k \in KeysOf(kvs_arg.items) :
          /\ \E i \in KvsRowsOf(kvs_before, k) :
                kvs_before[i].value # LastValueIn(kvs_arg.items, k)
          /\ \E i \in KvsRowsOf(kvs_table, k) :
                kvs_table[i].value = LastValueIn(kvs_arg.items, k)

C10_KvsSetFrame ==
    \A k \in Keys \ KeysOf(kvs_arg.items) :
        KvsRowSeq(kvs_table, k) = KvsRowSeq(kvs_before, k)

\* C10 witness: the call overwrote one key's value while another key, not in
\* the mapping, had a row.
C10_Witness ==
    /\ kvs_pc = "executed" /\ kvs_result = "ok"
    /\ \E k \in KeysOf(kvs_arg.items) :
          KvsRowSeq(kvs_table, k) # KvsRowSeq(kvs_before, k)
          /\ KvsRowSeq(kvs_before, k) # <<>>
    /\ \E k \in Keys \ KeysOf(kvs_arg.items) : KvsRowSeq(kvs_table, k) # <<>>

----------------------------------------------------------------------------
(***************************************************************************)
(* Claims about the index-migration cache                                  *)
(***************************************************************************)

\* Thread t has returned from has_built_index(n).
HbiReturned(t, n) ==
    /\ idx_pc[t] = "idle"
    /\ idx_call[t] = [op |-> "has_built_index", name |-> n]

\* C3 as claimed: under every interleaving of the calls one process makes,
\* once a mark_index_built(n) call has returned, no has_built_index(n) call
\* that begins afterwards returns false.
C3_Original ==
    \A t \in Threads, n \in MigrationNames :
        (HbiReturned(t, n) /\ idx_after_mark[t]) => idx_ret[t] # "false"

\* C4: on a handle used sequentially, has_built_index(n) called right after
\* mark_index_built(n) returns true, also when an earlier has_built_index(n)
\* returned false and left that answer in the cache.
C4_MarkThenHasBuiltIsTrue ==
    \A t \in Threads, n \in MigrationNames :
        (HbiReturned(t, n)
         /\ idx_prev[t] = [op |-> "mark_index_built", name |-> n])
            => idx_ret[t] = "true"

\* C4 witness: has_built_index(n) returned false once, then mark_index_built(n)
\* ran, and the has_built_index(n) right after it has returned true.
C4_Witness ==
    \E t \in Threads, n \in MigrationNames :
        /\ HbiReturned(t, n)
        /\ idx_prev[t] = [op |-> "mark_index_built", name |-> n]
        /\ n \in idx_seen_false
        /\ idx_ret[t] = "true"

\* C18: on a handle used sequentially, between two consecutive
\* mark_index_built(n) calls (or from construction to the first) the
\* persisted marker of n is queried at most once, and only while n has no
\* cache entry; every has_built_index(n) call returns what that query
\* answered; a mark_index_built(n) call changes the cache entry of no other
\* name.
C18_OneQueryBetweenMarks ==
    /\ [](\A n \in MigrationNames : idx_queries[n] <= 1)
    /\ [][\A t \in Threads :
            /\ (idx_pc[t] = "hbi_query" /\ idx_pc'[t] = "hbi_store") =>
                  idx_cache[idx_call[t].name] = "absent"
            /\ (idx_pc[t] = "hbi_read" /\ idx_pc'[t] = "idle") =>
                  idx_ret'[t] = idx_qval[idx_call[t].name]
            /\ (idx_pc'[t] # idx_pc[t] /\ idx_call'[t].op = "mark_index_built") =>
                  \A m \in MigrationNames \ {idx_call'[t].name} :
                      idx_cache'[m] = idx_cache[m]]_vars

\* C18 witness: after mark_index_built(n), while another name had a cache
\* entry, two has_built_index(n) calls in a row have returned and the marker
\* of n was queried once.
C18_Witness ==
    \E t \in Threads, n \in MigrationNames, m \in MigrationNames :
        /\ m # n
        /\ HbiReturned(t, n)
        /\ idx_prev[t] = [op |-> "has_built_index", name |-> n]
        /\ n \in idx_marked
        /\ idx_queries[n] = 1
        /\ idx_ret[t] = idx_qval[n]
        /\ idx_cache[m] # "absent"

----------------------------------------------------------------------------
(***************************************************************************)
(* Claims about the schema bootstrap                                       *)
(***************************************************************************)

FreshDb == [tables |-> {}, stamp |-> "none"]

\* Process p has constructed its store, with autocreate enabled.
CtConstructed(p) == ct_pc[p] = "done" /\ ct_autocreate[p]

\* C5: constructing a store with autocreate against a fresh database creates
\* every table of the run-storage schema and stamps a revision; constructing
\* a store against an initialized database succeeds, creates no table and
\* leaves the tables and the stamp as they were.  Neither construction fails.
C5_BootstrapThenIdempotent ==
    \A p \in Procs :
        /\ (CtConstructed(p) /\ ct_before[p] = FreshDb) =>
              /\ ct_result[p] = "ok"
              /\ db_tables = AllTables
              /\ ct_created[p] = AllTables
              /\ db_stamp \in Revisions
        /\ (CtConstructed(p) /\ ct_before[p].tables = AllTables) =>
              /\ ct_result[p] = "ok"
              /\ ct_created[p] = {}
              /\ db_tables = ct_before[p].tables
              /\ db_stamp = ct_before[p].stamp
        /\ (ct_autocreate[p] /\ ct_pc[p] # "new"
            /\ (ct_before[p] = FreshDb \/ ct_before[p].tables = AllTables)) =>
              ct_pc[p] # "failed"

\* C5 witness: one store was constructed on the fresh database and created
\* everything, a second one was constructed afterwards and created nothing.
C5_Witness ==
    \E p, q \in Procs :
        /\ p # q
        /\ CtConstructed(p) /\ ct_before[p] = FreshDb /\ ct_created[p] = AllTables
        /\ CtConstructed(q) /\ ct_before[q] = [tables |-> AllTables, stamp |-> db_stamp]
        /\ ct_created[q] = {} /\ ct_result[q] = "ok"
        /\ db_stamp \in Revisions

\* The database p's construction met: stamped by a sibling storage role,
\* without this role's primary table.
SiblingStampedNoRuns(p) ==
    /\ ct_before[p].stamp \in Revisions
    /\ "runs" \notin ct_before[p].tables

\* C6 as claimed: such a construction creates this role's tables and leaves
\* the revision stamp exactly as the sibling stamped it.
C6_Original ==
    \A p \in Procs :
        (CtConstructed(p) /\ SiblingStampedNoRuns(p)) =>
            /\ AllTables \subseteq db_tables
            /\ db_stamp = ct_before[p].stamp

\* C6 amended: such a construction creates the tables of this role that are
\* missing and stamps the revision again, with the head revision of this
\* code: the stamp is as the sibling left it exactly when the sibling had
\* stamped that head revision, and an older stamp is overwritten.
C6_SiblingStampRestampedToHead ==
    \A p \in Procs :
        (CtConstructed(p) /\ SiblingStampedNoRuns(p)) =>
            /\ ct_result[p] = "ok"
            /\ db_tables = AllTables
            /\ ct_created[p] = AllTables \ ct_before[p].tables
            /\ db_stamp = HeadRevision
            /\ (db_stamp = ct_before[p].stamp) <=> (ct_before[p].stamp = HeadRevision)

\* C6 witness: the sibling had created instance_info and stamped the head
\* revision; the construction created the other tables and the stamp reads
\* the same.
C6_Witness ==
    \E p \in Procs :
        /\ CtConstructed(p)
        /\ ct_before[p] = [tables |-> {"instance_info"}, stamp |-> HeadRevision]
        /\ ct_created[p] = AllTables \ {"instance_info"}
        /\ db_tables = AllTables
        /\ db_stamp = HeadRevision

\* C7 as claimed: when two processes construct a store concurrently against
\* the same fresh database and both find 'runs' absent, both constructions
\* succeed under every interleaving, every table is created once and the
\* revision is stamped.
C7_Original ==
    \A p, q \in Procs :
        (/\ p # q
         /\ ct_autocreate[p] /\ ct_autocreate[q]
         /\ ct_before[p] = FreshDb /\ ct_before[q] = FreshDb
         /\ ct_pc[p] \notin {"new", "probe"} /\ ct_pc[q] \notin {"new", "probe"}
         /\ NeedsInitDb(ct_names[p]) /\ NeedsInitDb(ct_names[q])) =>
            /\ ct_pc[p] # "failed"
            /\ (ct_pc[p] = "done" /\ ct_pc[q] = "done") =>
                  /\ ct_result[p] = "ok" /\ ct_result[q] = "ok"
                  /\ db_tables = AllTables
                  /\ ct_created[p] \cap ct_created[q] = {}
                  /\ ct_created[p] \cup ct_created[q] = AllTables
                  /\ db_stamp \in Revisions

\* C16 as claimed: when two processes construct a store concurrently, both
\* having observed 'runs' present and 'instance_info' absent, both
\* constructions succeed under every interleaving: neither raises.
C16_Original ==
    \A p, q \in Procs :
        (/\ p # q
         /\ ct_autocreate[p] /\ ct_autocreate[q]
         /\ ct_pc[p] \notin {"new", "probe"} /\ ct_pc[q] \notin {"new", "probe"}
         /\ "runs" \in ct_names[p] /\ "instance_info" \notin ct_names[p]
         /\ "runs" \in ct_names[q] /\ "instance_info" \notin ct_names[q]) =>
            /\ ct_pc[p] # "failed"
            /\ ct_pc[p] = "done" => ct_result[p] = "ok"

\* The database p's construction met: this role's primary table is there,
\* the auxiliary table instance_info is not.
RunsWithoutInstanceInfo(p) ==
    /\ "runs" \in ct_before[p].tables
    /\ "instance_info" \notin ct_before[p].tables

\* C17: constructing a store with autocreate against a database that has
\* 'runs' and lacks 'instance_info' creates exactly 'instance_info': the
\* other tables are as they were, the stamp is unchanged, and migrate() and
\* optimize() are not run.
C17_OnlyInstanceInfoCreated ==
    \A p \in Procs :
        (CtConstructed(p) /\ RunsWithoutInstanceInfo(p)) =>
            /\ ct_result[p] = "ok"
            /\ ct_created[p] = {"instance_info"}
            /\ db_tables = ct_before[p].tables \cup {"instance_info"}
            /\ db_stamp = ct_before[p].stamp
            /\ ~ct_migrated[p]

\* C17 witness: the database held every table but instance_info under an
\* older stamp; the construction added instance_info and nothing else.
C17_Witness ==
    \E p \in Procs :
        /\ CtConstructed(p)
        /\ ct_before[p] = [tables |-> AllTables \ {"instance_info"}, stamp |-> "old"]
        /\ ct_created[p] = {"instance_info"}
        /\ db_tables = AllTables
        /\ db_stamp = "old"
        /\ ~ct_migrated[p]

\* C15, as stated: whenever no construction is in progress, also after an
\* attempt of _init_db that failed, ran out of retries or whose process was
\* stopped, the table 'runs' exists only if the revision is stamped.
C15_Original ==
    (\A p \in Procs : ~CtInProgress(p)) =>
        ("runs" \in db_tables => db_stamp # "none")

----------------------------------------------------------------------------
(***************************************************************************)
(* Claims about the engine and the operations scoped by connect()          *)
(***************************************************************************)

\* Handle h has run alembic_version to the end of its with block.
AlembicVersionDone(h) ==
    op_pc[h] = "exit" /\ op_kind[h] = "alembic_version" /\ op_result[h] = "ok"

\* C13: every alembic_version call returns the revision that is persisted
\* when it is made, whatever upgrades this or other handles ran between the
\* calls; what an earlier call returned plays no part.
C13_AlembicVersionReadsLiveRevision ==
    \A h \in Procs : AlembicVersionDone(h) => op_ret[h].db_revision = db_stamp

\* C13 witness: the handle's previous call returned the older revision, an
\* upgrade ran, and its present call returns the head revision.
C13_Witness ==
    \E h \in Procs :
        /\ AlembicVersionDone(h)
        /\ op_last_ret[h].db_revision = "old"
        /\ op_ret[h].db_revision = HeadRevision
        /\ db_stamp = HeadRevision

\* C14: after optimize_for_dagit the engine's connection options are the
\* statement-timeout directive of the latest call, followed by the options
\* configured in the URL when there are any: none of these is lost and no
\* directive of an earlier call remains.
C14_OptimizeKeepsConfiguredOptions ==
    \A h \in Procs :
        op_timeouts[h] # <<>> =>
            LET directive == pg_statement_timeout(op_timeouts[h][Len(op_timeouts[h])]) IN
            ConnectionOptions(op_engine[h]) =
                IF op_postgres_url[h] = "" THEN directive
                ELSE directive \o " " \o op_postgres_url[h]

\* C14 witness: a handle whose URL configures an option was switched twice,
\* with timeouts 1 and then 2; another, without configured options, once.
C14_Witness ==
    \E h, g \in Procs :
        /\ op_postgres_url[h] = "-c search_path=dagster"
        /\ op_timeouts[h] = <<1, 2>>
        /\ ConnectionOptions(op_engine[h]) = "-c statement_timeout=2 -c search_path=dagster"
        /\ op_postgres_url[g] = ""
        /\ op_timeouts[g] = <<1>>
        /\ ConnectionOptions(op_engine[g]) = "-c statement_timeout=1"

\* Process p leaves __init__ by an exception in this step.
CtRaises(p) == ct_pc[p] # "failed" /\ ct_pc'[p] = "failed"

\* Handle h's operation is left by an exception from connect() in this step.
OpConnectRaises(h) == op_pc[h] = "connect" /\ op_pc'[h] = "exit"

\* C11, as stated, for transient failures: in the probe, the bootstrap, the
\* creation of instance_info and the connection acquisition of an operation,
\* a transient failure reaches the caller only when a retry budget is used
\* up.
C11_Original ==
    [][/\ \A p \in Procs :
            (CtRaises(p) /\ ct_cause'[p] = "transient") =>
                (ct_conn_retries[p] = 0 \/ ct_retries[p] = 0)
       /\ \A h \in Procs :
            (OpConnectRaises(h) /\ op_cause'[h] = "transient") => op_retries[h] = 0]_vars

\* C12: a connection acquired through connect() is released when its
\* operation is over, by return or by exception: a process outside __init__
\* holds none for _init_db, an idle handle holds none for upgrade,
\* add_daemon_heartbeat, kvs_set or alembic_version; and with the default
\* engine the pool of an idle handle keeps no connection open.
C12_ConnectionsReleased ==
    \A h \in Procs :
        /\ ~CtInProgress(h) => ct_conn[h] = 0
        /\ op_pc[h] = "idle" => op_conn[h] = 0
        /\ (~CtInProgress(h) /\ op_pc[h] = "idle"
                /\ op_engine[h] = DefaultEngine(op_postgres_url[h])) =>
               op_pool_idle[h] = 0

\* C12 witness: one process left _init_db by an exception after creating
\* tables on its connection; a handle on the default engine has run
\* alembic_version to the end and is idle.
C12_Witness ==
    \E h, g \in Procs :
        /\ ct_pc[g] = "failed" /\ ct_created[g] # {} /\ ct_conn[g] = 0
        /\ ct_pc[h] = "done" /\ op_pc[h] = "idle"
        /\ op_last_ret[h] # NoRevision
        /\ op_engine[h] = DefaultEngine(op_postgres_url[h])
        /\ op_conn[h] = 0 /\ op_pool_idle[h] = 0

\* C19: the persisted revision changes only in a step of upgrade()'s body
\* or in the stamping step of a bootstrap taken because the probe found no
\* 'runs' table; every other step of construction, of optimize_for_dagit,
\* of the operations scoped by connect() and of the index operations leaves
\* it as it is.
C19_StampChangesOnlyByUpgradeOrBootstrap ==
    [][db_stamp' # db_stamp =>
          \/ \E h \in Procs :
                op_pc[h] = "body" /\ op_kind[h] = "upgrade" /\ op_pc'[h] = "exit"
          \/ \E p \in Procs :
                ct_pc[p] = "stamp" /\ ct_pc'[p] = "migrate" /\ "runs" \notin ct_names[p]]_vars

\* C19 witness: the schema is out of date; one store was constructed on it
\* with autocreate, another without; optimize_for_dagit, alembic_version,
\* has_built_index and mark_index_built have run; the revision is still the
\* older one.
C19_Witness ==
    \E h, g \in Procs :
        /\ h # g
        /\ CtConstructed(h) /\ ct_autocreate[h]
        /\ ct_before[h] = [tables |-> AllTables, stamp |-> "old"]
        /\ ct_pc[g] = "done" /\ ~ct_autocreate[g]
        /\ op_timeouts[h] # <<>>
        /\ op_last_ret[h].db_revision = "old"
        /\ idx_marked # {} /\ idx_seen_false # {}
        /\ db_stamp = "old"

\* Every round trip of p's present stage has failed transiently so far, and
\* __init__ is over without the process having been stopped.
CtEndedAllTransient(p) ==
    /\ ct_streak[p] \in {"probe", "bootstrap"}
    /\ ct_pc[p] \in {"done", "failed"}

\* C20: a construction that has begun ends; and when every round trip of
\* the probe, or every one of the bootstrap, failed transiently, it ends by
\* raising DagsterPostgresException, never with a handle.
C20_ConstructionTerminates ==
    /\ \A p \in Procs : CtInProgress(p) ~> ~CtInProgress(p)
    /\ [](\A p \in Procs :
            CtEndedAllTransient(p) =>
                ct_pc[p] = "failed" /\ ct_result[p] = "DagsterPostgresException")

\* C20 witness: every probe of one process failed transiently and its
\* constructor raised; every connection attempt of the other's bootstrap
\* did and its constructor raised as well.
C20_Witness ==
    \E p, q \in Procs :
        /\ ct_streak[p] = "probe" /\ ct_pc[p] = "failed"
        /\ ct_result[p] = "DagsterPostgresException"
        /\ ct_streak[q] = "bootstrap" /\ ct_pc[q] = "failed"
        /\ ct_result[q] = "DagsterPostgresException"

=============================================================================
